---- MODULE Spec2Model ----
(***************************************************************************)
(* A model of the evohome integration: setup() of src/evohome.py, the      *)
(* EvoDevice base class (dispatcher filter, rate-limit handling,           *)
(* should_poll) and the EvoDHW water heater of src/water_heater/evohome.py *)
(* (update, current_operation).                                            *)
(*                                                                         *)
(* Python dicts with a fixed shape are records; a dict whose keys come and *)
(* go (evo_data['timers']) is a set of <<key, value>> pairs; {} for a      *)
(* status tree is the empty function <<>>.  Times are whole seconds.       *)
(***************************************************************************)
EXTENDS Integers, Sequences, FiniteSets, TLC

VARIABLES
    hass_config,      \* hass_config[DOMAIN], as validated by CONFIG_SCHEMA
    debug_enabled,    \* _LOGGER.isEnabledFor(logging.DEBUG)
    vendor_auth,      \* what EvohomeClient(...) answered in setup()
    evo_params,       \* evo_data['params']
    timers,           \* evo_data['timers'], one dict shared by reference
    client,           \* evo_data['client'] and its installation_info
    status,           \* evo_data['status']
    config,           \* evo_data['config']: index into installation_info
    scan_interval,    \* setup()'s local scan_interval, in minutes
    platforms,        \* platforms handed to load_platform
    start_listeners,  \* listeners on EVENT_HOMEASSISTANT_START
    auth_calls,       \* number of EvohomeClient(...) constructions
    setup_result,     \* "pending", "True", "False" or the exception raised
    ha_started,       \* EVENT_HOMEASSISTANT_START has fired
    entities,         \* the devices created so far, by id
    subscribed,       \* the devices connected to DISPATCHER_EVOHOME
    pending,          \* refreshes scheduled by async_schedule_update_ha_state
    now,              \* datetime.now(), in seconds
    outcome           \* how the last call on a device ended

vars == <<hass_config, debug_enabled, vendor_auth, evo_params, timers, client,
          status, config, scan_interval, platforms, start_listeners,
          auth_calls, setup_result, ha_started, entities, subscribed, pending,
          now, outcome>>

setup_vars == <<hass_config, debug_enabled, vendor_auth, evo_params, client,
                config, scan_interval, platforms, start_listeners, auth_calls,
                setup_result>>

-----------------------------------------------------------------------------
(* Bounds of the model *)

MaxScanSeconds == 360
MaxLocationIdx == 3
MaxLocations == 2
MaxTime == 1800
TickStep == 450

-----------------------------------------------------------------------------
(* Constants of the program *)

HTTP_OK == 200
HTTP_BAD_REQUEST == 400
HTTP_UNAUTHORIZED == 401
HTTP_TOO_MANY_REQUESTS == 429
HTTP_INTERNAL_SERVER_ERROR == 500
HTTP_SERVICE_UNAVAILABLE == 503

SCAN_INTERVAL_DEFAULT == 300
SCAN_INTERVAL_MINIMUM == 180

EVO_PARENT == 1
EVO_CHILD == 2

REDACTED == "REDACTED"

-----------------------------------------------------------------------------
(* Python helpers *)

\* dict as a set of <<key, value>> pairs
EmptyDict == {}

HasKey(d, k) == \E p \in d : p[1] = k

GetItem(d, k) == (CHOOSE p \in d : p[1] = k)[2]

SetItem(d, k, v) == {p \in d : p[1] # k} \cup {<<k, v>>}

\* a & b on non-negative integers
RECURSIVE BitAnd(_, _)
BitAnd(a, b) ==
    IF a = 0 \/ b = 0 THEN 0
    ELSE (a % 2) * (b % 2) + 2 * BitAnd(a \div 2, b \div 2)

Max(a, b) == IF a >= b THEN a ELSE b

\* seq[i] of a Python list (0-based) raises IndexError outside -len..len-1
IndexInRange(seq, i) == i >= 0 - Len(seq) /\ i < Len(seq)

\* the names the import statements of src/evohome.py bind in its module
\* namespace; a name looked up at run time and not in here is a NameError
evohome_globals ==
    {"timedelta", "logging", "HTTPError", "vol",
     "CONF_SCAN_INTERVAL", "CONF_USERNAME", "CONF_PASSWORD",
     "EVENT_HOMEASSISTANT_START", "HTTP_BAD_REQUEST",
     "HTTP_SERVICE_UNAVAILABLE", "HTTP_TOO_MANY_REQUESTS",
     "PRECISION_HALVES", "TEMP_CELSIUS", "callback", "cv", "load_platform",
     "async_dispatcher_send", "async_dispatcher_connect", "Entity"}

-----------------------------------------------------------------------------
(* The inputs of setup(): the validated configuration and the vendor *)

Configs ==
    [username : {"user@example.com"},
     password : {"hunter2"},
     location_idx : 0..MaxLocationIdx,
     scan_interval : SCAN_INTERVAL_MINIMUM..MaxScanSeconds]

PlainLocationInfo ==
    [locationId |-> "3912748", locationOwner |-> "J Smith",
     streetAddress |-> "1 High Street", city |-> "London",
     postcode |-> "E2 8AA"]

\* one location: its locationInfo, gateways[0].gatewayInfo, and whether
\* gateways[0].temperatureControlSystems[0] has a 'dhw' key
Location(dhw) ==
    [locationInfo |-> PlainLocationInfo, gatewayInfo |-> "gateway-4711",
     dhw |-> dhw]

Installations ==
    UNION {[1..n -> {Location(TRUE), Location(FALSE)}] : n \in 0..MaxLocations}

AuthOk == [ok |-> TRUE, status_code |-> HTTP_OK]

AuthError(code) == [ok |-> FALSE, status_code |-> code]

AuthResponses ==
    {AuthOk} \cup
    {AuthError(c) : c \in {HTTP_BAD_REQUEST, HTTP_UNAUTHORIZED,
                           HTTP_TOO_MANY_REQUESTS, HTTP_INTERNAL_SERVER_ERROR,
                           HTTP_SERVICE_UNAVAILABLE}}

NoAuth == [ok |-> FALSE, status_code |-> 0]

NoClient == [created |-> FALSE, installation_info |-> <<>>]

NoConfig == -1

NoOutcome ==
    [call |-> "none", dev |-> "none", cause |-> "none", code |-> 0, at |-> 0,
     result |-> "none", value |-> "none",
     setpoint_mode |-> "none", system_mode |-> "none"]

-----------------------------------------------------------------------------
(* setup() *)

\* faulty variant: the interval rounded down to whole minutes
RoundDownToMinutes(seconds) == seconds \div 60

\* timedelta(minutes=(scan_interval.total_seconds() + 59) // 60)
RoundUpToMinutes(seconds) == (seconds + 59) \div 60

\* faulty variant: the rate-limit branch of the except clause is missing
IsHandledStatusNoRateLimit(code) ==
    \/ code = HTTP_BAD_REQUEST
    \/ code = HTTP_SERVICE_UNAVAILABLE

\* the status codes of the except clause that end in "return False"
IsHandledStatus(code) ==
    \/ code = HTTP_BAD_REQUEST
    \/ code = HTTP_SERVICE_UNAVAILABLE
    \/ code = HTTP_TOO_MANY_REQUESTS

\* faulty variant: the finally clause forgets the username
RedactPasswordOnly(params) == [params EXCEPT !.password = REDACTED]

\* the finally clause, applied to the copy of hass_config[DOMAIN]
RedactCredentials(params) ==
    [params EXCEPT !.username = REDACTED, !.password = REDACTED]

\* the body of "for loc in client.installation_info"
RedactLocation(loc) ==
    [loc EXCEPT !.locationInfo.locationId = REDACTED,
                !.locationInfo.locationOwner = REDACTED,
                !.locationInfo.streetAddress = REDACTED,
                !.locationInfo.city = REDACTED,
                !.gatewayInfo = REDACTED]

RedactInstallation(installation_info) ==
    [i \in 1..Len(installation_info) |-> RedactLocation(installation_info[i])]

\* faulty variant: no except clause, the IndexError leaves setup()
on_index_error_unhandled == "IndexError"

\* "except IndexError: ... return False"
on_index_error == "False"

\* tmp_loc = dict(evo_data['config']) is a shallow copy, so the assignment
\* to tmp_loc['locationInfo']['postcode'] lands in the retained location
RedactPostcodeForDebug(installation_info, loc_idx) ==
    [installation_info EXCEPT ![loc_idx + 1].locationInfo.postcode = REDACTED]

setup(auth, installation_info) ==
    /\ setup_result = "pending"
    /\ vendor_auth' = auth
    /\ timers' = EmptyDict
    /\ scan_interval' = RoundUpToMinutes(hass_config.scan_interval)
    /\ auth_calls' = auth_calls + 1
    /\ evo_params' = RedactCredentials(hass_config)
    /\ IF ~auth.ok
       THEN /\ setup_result' =
                 IF IsHandledStatus(auth.status_code) THEN "False"
                 ELSE "HTTPError"
            /\ UNCHANGED <<client, status, config, platforms, start_listeners>>
       ELSE LET info == RedactInstallation(installation_info)
                loc_idx == hass_config.location_idx
            IN  /\ status' = <<>>
                /\ IF ~IndexInRange(info, loc_idx)
                   THEN /\ client' = [created |-> TRUE,
                                      installation_info |-> info]
                        /\ setup_result' = on_index_error
                        /\ UNCHANGED <<config, platforms, start_listeners>>
                   ELSE /\ client' =
                             [created |-> TRUE,
                              installation_info |->
                                  IF debug_enabled
                                  THEN RedactPostcodeForDebug(info, loc_idx)
                                  ELSE info]
                        /\ config' = loc_idx
                        /\ platforms' =
                             {"climate"} \cup
                             (IF info[loc_idx + 1].dhw
                              THEN {"water_heater"} ELSE {})
                        /\ start_listeners' = start_listeners + 1
                        /\ setup_result' = "True"
    /\ UNCHANGED <<hass_config, debug_enabled, ha_started, entities,
                   subscribed, pending, now, outcome>>

\* the state before setup() runs, for one configuration
BeforeSetup(cfg, debug) ==
    /\ hass_config = cfg
    /\ debug_enabled = debug
    /\ vendor_auth = NoAuth
    /\ evo_params = cfg
    /\ timers = EmptyDict
    /\ client = NoClient
    /\ status = <<>>
    /\ config = NoConfig
    /\ scan_interval = 0
    /\ platforms = {}
    /\ start_listeners = 0
    /\ auth_calls = 0
    /\ setup_result = "pending"
    /\ ha_started = FALSE
    /\ entities = <<>>
    /\ subscribed = {}
    /\ pending = {}
    /\ now = 0
    /\ outcome = NoOutcome

InitSetup == \E cfg \in Configs, debug \in BOOLEAN : BeforeSetup(cfg, debug)

NextSetup ==
    \E auth \in AuthResponses, installation_info \in Installations :
        setup(auth, installation_info)

SpecSetup == InitSetup /\ [][NextSetup]_vars

-----------------------------------------------------------------------------
(* Vendor modes and the state mapper of the water heater platform *)

EVO_RESET == "AutoWithReset"
EVO_AUTO == "Auto"
EVO_AUTOECO == "AutoWithEco"
EVO_AWAY == "Away"
EVO_DAYOFF == "DayOff"
EVO_CUSTOM == "Custom"
EVO_HEATOFF == "HeatingOff"

EVO_FOLLOW == "FollowSchedule"
EVO_TEMPOVER == "TemporaryOverride"
EVO_PERMOVER == "PermanentOverride"

STATE_AUTO == "auto"
STATE_ECO == "eco"
STATE_MANUAL == "manual"
STATE_OFF == "off"

None == "None"

TCS_STATE_TO_HA ==
    {<<EVO_RESET, STATE_AUTO>>, <<EVO_AUTO, STATE_AUTO>>,
     <<EVO_AUTOECO, STATE_ECO>>, <<EVO_AWAY, STATE_AUTO>>,
     <<EVO_DAYOFF, STATE_AUTO>>, <<EVO_CUSTOM, STATE_AUTO>>,
     <<EVO_HEATOFF, STATE_OFF>>}

ZONE_STATE_TO_HA ==
    {<<EVO_FOLLOW, STATE_AUTO>>, <<EVO_TEMPOVER, STATE_MANUAL>>,
     <<EVO_PERMOVER, STATE_MANUAL>>}

\* dict.get(key): the value, or None when the key is absent
DictGet(d, k) == IF HasKey(d, k) THEN GetItem(d, k) ELSE None

\* faulty variant: a follow-schedule child does not inherit from the controller
current_operation_own_mode_only(setpoint_mode, system_mode) ==
    DictGet(ZONE_STATE_TO_HA, setpoint_mode)

\* the body of EvoDHW.current_operation, once both modes are read
current_operation_value(setpoint_mode, system_mode) ==
    IF setpoint_mode = EVO_FOLLOW
    THEN IF system_mode = EVO_RESET
         THEN DictGet(TCS_STATE_TO_HA, EVO_AUTO)
         ELSE DictGet(TCS_STATE_TO_HA, system_mode)
    ELSE DictGet(ZONE_STATE_TO_HA, setpoint_mode)

\* a mode string the vendor may report that neither table lists
UNMAPPED_MODE == "UnknownMode"

SystemModes ==
    {EVO_RESET, EVO_AUTO, EVO_AUTOECO, EVO_AWAY, EVO_DAYOFF, EVO_CUSTOM,
     EVO_HEATOFF}

SetpointModes == {EVO_FOLLOW, EVO_TEMPOVER, EVO_PERMOVER}

\* the part of the status tree the devices read
StatusTree(system_mode, setpoint_mode) ==
    [systemModeStatus |-> [mode |-> system_mode],
     dhw |-> [stateStatus |-> [mode |-> setpoint_mode]]]

PollOk(tree) == [ok |-> TRUE, status_code |-> HTTP_OK, tree |-> tree]

PollError(code) == [ok |-> FALSE, status_code |-> code, tree |-> <<>>]

AllStatusTrees ==
    {StatusTree(s, z) : s \in SystemModes \cup {UNMAPPED_MODE},
                        z \in SetpointModes \cup {UNMAPPED_MODE}}

-----------------------------------------------------------------------------
(* Devices *)

CONTROLLER == "controller"
DHW == "dhw"

\* EvoDevice.__init__ followed by EvoDHW.__init__
EvoDHW_init == [_type |-> EVO_CHILD, _available |-> FALSE, _status |-> <<>>]

\* EvoDevice.__init__ followed by the controller's own constructor
EvoController_init ==
    [_type |-> EVO_PARENT, _available |-> FALSE, _status |-> <<>>]

\* self._timers = evo_data['timers']: every device holds the same dict
device_timers(d) == timers

Exists(d) == d \in DOMAIN entities

\* async_setup_platform of the water_heater platform
async_setup_platform ==
    /\ "water_heater" \in platforms
    /\ ~Exists(DHW)
    /\ entities' = (DHW :> EvoDHW_init) @@ entities
    /\ UNCHANGED <<setup_vars, timers, status, ha_started, subscribed,
                   pending, now, outcome>>

\* the climate platform creates the controller
climate_setup_platform ==
    /\ "climate" \in platforms
    /\ ~Exists(CONTROLLER)
    /\ entities' = (CONTROLLER :> EvoController_init) @@ entities
    /\ UNCHANGED <<setup_vars, timers, status, ha_started, subscribed,
                   pending, now, outcome>>

async_added_to_hass(d) ==
    /\ Exists(d)
    /\ d \notin subscribed
    /\ subscribed' = subscribed \cup {d}
    /\ UNCHANGED <<setup_vars, timers, status, ha_started, entities,
                   pending, now, outcome>>

\* faulty variant: the target bitmask is not looked at
connect_accepts_any_target(type, packet) == packet.signal = "refresh"

\* the condition of EvoDevice._connect
connect_accepts(type, packet) ==
    BitAnd(packet.to, type) # 0 /\ packet.signal = "refresh"

\* EvoDevice.should_poll
should_poll(type) == type = EVO_PARENT

\* async_dispatcher_send: every connected device's _connect sees the packet
\* and schedules its refresh when it accepts it
Dispatch(packet) ==
    pending' = pending \cup
        {[dev |-> d, packet |-> packet] :
            d \in {e \in subscribed :
                     connect_accepts(entities[e]._type, packet)}}

\* faulty variant: the startup packet is addressed to parent and children
first_update_packet_to_all ==
    [sender |-> "setup()", signal |-> "refresh", to |-> EVO_PARENT + EVO_CHILD]

\* the packet setup()'s _first_update sends
first_update_packet ==
    [sender |-> "setup()", signal |-> "refresh", to |-> EVO_PARENT]

\* EVENT_HOMEASSISTANT_START reaches the listener setup() registered
_first_update ==
    /\ start_listeners > 0
    /\ ~ha_started
    /\ ha_started' = TRUE
    /\ Dispatch(first_update_packet)
    /\ UNCHANGED <<setup_vars, timers, status, entities, subscribed, now,
                   outcome>>

\* packets other components put on DISPATCHER_EVOHOME
OtherPackets ==
    [sender : {"controller"}, signal : {"refresh", "other"},
     to : 0..(EVO_PARENT + EVO_CHILD)]

ChildRefreshPackets ==
    {[sender |-> "controller", signal |-> "refresh", to |-> EVO_CHILD]}

async_dispatcher_send(packet) ==
    /\ setup_result = "True"
    /\ Dispatch(packet)
    /\ UNCHANGED <<setup_vars, timers, status, ha_started, entities,
                   subscribed, now, outcome>>

\* EvoDevice._handle_requests_exceptions at time t: how it ends, and the
\* shared timers dict afterwards
handle_requests_exceptions(code, t) ==
    IF code = HTTP_TOO_MANY_REQUESTS
    THEN LET temp_interval ==
                 Max(evo_params.scan_interval, SCAN_INTERVAL_DEFAULT) * 3
         IN  IF "datetime" \in evohome_globals
             THEN [result |-> "return",
                   timers |-> SetItem(timers, "statusUpdated",
                                      t + temp_interval)]
             ELSE [result |-> "NameError", timers |-> timers]
    ELSE [result |-> "HTTPError", timers |-> timers]

Outcome(call, d, cause, code, result) ==
    [NoOutcome EXCEPT !.call = call, !.dev = d, !.cause = cause,
                      !.code = code, !.at = now, !.result = result]

\* the method called on device d with an HTTPError of the given status
_handle_requests_exceptions(d, code) ==
    /\ Exists(d)
    /\ LET h == handle_requests_exceptions(code, now)
       IN  /\ timers' = h.timers
           /\ outcome' = Outcome("_handle_requests_exceptions", d, "call",
                                 code, h.result)
    /\ UNCHANGED <<setup_vars, status, ha_started, entities, subscribed,
                   pending, now>>

\* EvoDHW.update
EvoDHW_update(d, cause) ==
    IF DOMAIN status = {}
    THEN /\ outcome' = Outcome("update", d, cause, 0, "KeyError")
         /\ UNCHANGED <<entities, status, timers>>
    ELSE /\ entities' = [entities EXCEPT ![d]._status = status.dhw,
                                         ![d]._available = TRUE]
         /\ outcome' = Outcome("update", d, cause, 0, "return")
         /\ UNCHANGED <<status, timers>>

\* the controller's update: skipped while the backoff lasts, else a poll of
\* the vendor that replaces the shared status tree or hands the HTTPError
\* to _handle_requests_exceptions
EvoController_update(d, cause, responses) ==
    IF HasKey(timers, "statusUpdated") /\ now < GetItem(timers, "statusUpdated")
    THEN /\ outcome' = Outcome("update", d, cause, 0, "skipped")
         /\ UNCHANGED <<entities, status, timers>>
    ELSE \E r \in responses :
            IF r.ok
            THEN /\ status' = r.tree
                 /\ entities' = [entities EXCEPT ![d]._available = TRUE]
                 /\ outcome' = Outcome("update", d, cause, 0, "return")
                 /\ UNCHANGED timers
            ELSE LET h == handle_requests_exceptions(r.status_code, now)
                 IN  /\ timers' = h.timers
                     /\ outcome' = Outcome("update", d, cause, r.status_code,
                                           h.result)
                     /\ UNCHANGED <<entities, status>>

update(d, cause, responses) ==
    IF entities[d]._type = EVO_PARENT
    THEN EvoController_update(d, cause, responses)
    ELSE EvoDHW_update(d, cause)

\* a refresh scheduled by _connect runs
run_scheduled_update(p, responses) ==
    /\ p \in pending
    /\ pending' = pending \ {p}
    /\ update(p.dev, p.packet.sender, responses)
    /\ UNCHANGED <<setup_vars, ha_started, subscribed, now>>

\* the host polls, on its timer, the entities whose should_poll is true
timer_poll(d, responses) ==
    /\ Exists(d)
    /\ d \in subscribed
    /\ should_poll(entities[d]._type)
    /\ update(d, "timer", responses)
    /\ UNCHANGED <<setup_vars, ha_started, subscribed, pending, now>>

\* EvoDHW.current_operation read on device d
current_operation(d) ==
    /\ Exists(d)
    /\ entities[d]._type = EVO_CHILD
    /\ IF DOMAIN status = {} \/ DOMAIN entities[d]._status = {}
       THEN outcome' = Outcome("current_operation", d, "call", 0, "KeyError")
       ELSE LET system_mode == status.systemModeStatus.mode
                setpoint_mode == entities[d]._status.stateStatus.mode
            IN  outcome' =
                  [Outcome("current_operation", d, "call", 0, "return")
                     EXCEPT !.value = current_operation_value(setpoint_mode,
                                                              system_mode),
                            !.setpoint_mode = setpoint_mode,
                            !.system_mode = system_mode]
    /\ UNCHANGED <<setup_vars, timers, status, ha_started, entities,
                   subscribed, pending, now>>

Tick ==
    /\ now + TickStep <= MaxTime
    /\ now' = now + TickStep
    /\ UNCHANGED <<setup_vars, timers, status, ha_started, entities,
                   subscribed, pending, outcome>>

-----------------------------------------------------------------------------
(* The running integration: setup, the platforms, the dispatcher, polling *)

ScanChoices ==
    {SCAN_INTERVAL_MINIMUM, SCAN_INTERVAL_DEFAULT, SCAN_INTERVAL_DEFAULT + 60}

RunConfigs == {c \in Configs : c.location_idx = 0 /\ c.scan_interval \in ScanChoices}

RunInstallations == {<<Location(TRUE)>>, <<Location(FALSE)>>}

RunResponses ==
    {PollOk(StatusTree(EVO_AUTO, EVO_FOLLOW)),
     PollError(HTTP_TOO_MANY_REQUESTS), PollError(HTTP_SERVICE_UNAVAILABLE)}

ErrorCodes == {HTTP_TOO_MANY_REQUESTS, HTTP_SERVICE_UNAVAILABLE}

DeviceIds == {CONTROLLER, DHW}

Init == \E cfg \in RunConfigs : BeforeSetup(cfg, FALSE)

Next ==
    \/ \E auth \in {AuthOk, AuthError(HTTP_TOO_MANY_REQUESTS)},
          installation_info \in RunInstallations :
            setup(auth, installation_info)
    \/ async_setup_platform
    \/ climate_setup_platform
    \/ \E d \in DeviceIds : async_added_to_hass(d)
    \/ _first_update
    \/ \E packet \in OtherPackets : async_dispatcher_send(packet)
    \/ \E p \in pending : run_scheduled_update(p, RunResponses)
    \/ \E d \in DeviceIds : timer_poll(d, RunResponses)
    \/ \E d \in DeviceIds, code \in ErrorCodes :
            _handle_requests_exceptions(d, code)
    \/ Tick

Spec == Init /\ [][Next]_vars

-----------------------------------------------------------------------------
(* The state mapper, driven by every status tree the vendor may report *)

ModeResponses == {PollOk(t) : t \in AllStatusTrees}

InitMode ==
    \E cfg \in {c \in Configs : c.location_idx = 0
                                /\ c.scan_interval = SCAN_INTERVAL_DEFAULT} :
        BeforeSetup(cfg, FALSE)

NextMode ==
    \/ setup(AuthOk, <<Location(TRUE)>>)
    \/ async_setup_platform
    \/ climate_setup_platform
    \/ \E d \in DeviceIds : async_added_to_hass(d)
    \/ \E packet \in ChildRefreshPackets : async_dispatcher_send(packet)
    \/ \E p \in pending : run_scheduled_update(p, ModeResponses)
    \/ \E d \in DeviceIds : timer_poll(d, ModeResponses)
    \/ \E d \in DeviceIds : current_operation(d)

SpecMode == InitMode /\ [][NextMode]_vars

-----------------------------------------------------------------------------
(* Properties *)

SetupDone == setup_result # "pending"

ClassBitSet(to, type) == (to \div type) % 2 = 1

RateLimitHandledBy(d) ==
    /\ outcome.dev = d
    /\ outcome.code = HTTP_TOO_MANY_REQUESTS
    /\ outcome.call \in {"_handle_requests_exceptions", "update"}

\* C1: after the controller handles a rate-limit error at time t with the
\* configured interval I, the next-allowed-poll time is t + 3 * max(I, 300),
\* and a later poll of the controller is skipped exactly when it comes
\* strictly before that time.
C1_RateLimitBackoff ==
    /\ RateLimitHandledBy(CONTROLLER) =>
          /\ HasKey(timers, "statusUpdated")
          /\ GetItem(timers, "statusUpdated") =
                outcome.at + 3 * Max(hass_config.scan_interval, 300)
    /\ ( /\ outcome.call = "update"
         /\ outcome.dev = CONTROLLER
         /\ outcome.code # HTTP_TOO_MANY_REQUESTS
         /\ HasKey(timers, "statusUpdated") ) =>
          (outcome.result = "skipped"
             <=> outcome.at < GetItem(timers, "statusUpdated"))

\* C2: a device has a refresh scheduled by a packet only if the packet's
\* signal is 'refresh' and the packet's 'to' mask has the device's class bit;
\* a parent-only packet never reaches a child, a child-only packet never
\* reaches the parent.
C2_RefreshOnlyForOwnClass ==
    \A p \in pending :
        /\ p.packet.signal = "refresh"
        /\ ClassBitSet(p.packet.to, entities[p.dev]._type)
        /\ p.packet.to = EVO_PARENT => p.dev # DHW
        /\ p.packet.to = EVO_CHILD => p.dev # CONTROLLER

C2_Witness ==
    /\ subscribed = {CONTROLLER, DHW}
    /\ \E p \in pending : p.dev = CONTROLLER /\ p.packet.to = EVO_PARENT
    /\ \E p \in pending : p.dev = DHW /\ p.packet.to = EVO_CHILD

\* C3: on the three child modes and the seven controller modes, the child's
\* displayed operation is manual unless the child follows the schedule, and
\* then it is eco for auto-eco, off for heating-off and auto for reset, auto,
\* away, day-off and custom; it is never empty.
C3_DisplayedOperation ==
    ( /\ outcome.call = "current_operation"
      /\ outcome.setpoint_mode \in
            {"FollowSchedule", "TemporaryOverride", "PermanentOverride"}
      /\ outcome.system_mode \in
            {"AutoWithReset", "Auto", "AutoWithEco", "Away", "DayOff",
             "Custom", "HeatingOff"} ) =>
        /\ outcome.result = "return"
        /\ outcome.value # None
        /\ outcome.value =
             IF outcome.setpoint_mode # "FollowSchedule" THEN "manual"
             ELSE IF outcome.system_mode = "AutoWithEco" THEN "eco"
             ELSE IF outcome.system_mode = "HeatingOff" THEN "off"
             ELSE "auto"

C3_Witness ==
    /\ outcome.call = "current_operation"
    /\ outcome.setpoint_mode = "FollowSchedule"
    /\ outcome.system_mode = "HeatingOff"
    /\ outcome.value = "off"

\* C4: when authentication fails with 400, 503 or 429, setup() returns False
\* after one authentication attempt, with no platform loaded and no startup
\* listener registered; with any other status the HTTPError leaves setup().
C4_AuthFailureAborts ==
    (SetupDone /\ ~vendor_auth.ok) =>
        /\ auth_calls = 1
        /\ platforms = {}
        /\ start_listeners = 0
        /\ vendor_auth.status_code \in {400, 503, 429} => setup_result = "False"
        /\ vendor_auth.status_code \notin {400, 503, 429} =>
              setup_result = "HTTPError"

C4_Witness ==
    /\ setup_result = "False"
    /\ ~vendor_auth.ok
    /\ vendor_auth.status_code = 429

\* C5: when the configured location index is not below the number of
\* installations the vendor returned, setup() returns False, loads no
\* platform and registers no startup listener.
C5_LocationIndexOutOfRange ==
    ( /\ SetupDone
      /\ vendor_auth.ok
      /\ hass_config.location_idx >= Len(client.installation_info) ) =>
        /\ setup_result = "False"
        /\ platforms = {}
        /\ start_listeners = 0

C5_Witness ==
    /\ SetupDone
    /\ vendor_auth.ok
    /\ Len(client.installation_info) = 2
    /\ hass_config.location_idx = 2

\* C6: once setup() has finished, however it ended, the retained username
\* and password are the placeholder and not the configured text, and the
\* location id, owner and street address of every retained location are the
\* placeholder.
C6_NothingRetainedInPlaintext ==
    SetupDone =>
        /\ evo_params.username = "REDACTED"
        /\ evo_params.password = "REDACTED"
        /\ evo_params.username # hass_config.username
        /\ evo_params.password # hass_config.password
        /\ \A i \in 1..Len(client.installation_info) :
              /\ client.installation_info[i].locationInfo.locationId = "REDACTED"
              /\ client.installation_info[i].locationInfo.locationOwner = "REDACTED"
              /\ client.installation_info[i].locationInfo.streetAddress = "REDACTED"

C6_Witness ==
    /\ setup_result = "True"
    /\ evo_params.username = "REDACTED"
    /\ Len(client.installation_info) = 2

\* C7: the startup packet carries the parent bit only, should_poll is true
\* for the controller and for no child, and no child is ever refreshed by the
\* startup packet or polled by the timer.
C7_OnlyParentWoken ==
    /\ \A p \in pending :
          p.packet.sender = "setup()" =>
              p.packet.to = EVO_PARENT /\ p.dev = CONTROLLER
    /\ outcome.cause \in {"timer", "setup()"} => outcome.dev = CONTROLLER
    /\ \A d \in DOMAIN entities :
          should_poll(entities[d]._type) <=> d = CONTROLLER

C7_Witness ==
    /\ ha_started
    /\ DHW \in subscribed
    /\ entities[DHW]._available = FALSE
    /\ outcome.call = "update"
    /\ outcome.cause = "setup()"
    /\ outcome.dev = CONTROLLER

\* C8: when the mode looked up (the controller's for a follow-schedule child,
\* else the child's own) is in no lookup table, computing the displayed
\* operation ends in an error and returns nothing.
C8_UnmappedModeFails ==
    ( /\ outcome.call = "current_operation"
      /\ \/ /\ outcome.setpoint_mode = "FollowSchedule"
            /\ outcome.system_mode = UNMAPPED_MODE
         \/ outcome.setpoint_mode = UNMAPPED_MODE ) =>
        outcome.result # "return"

C10_PerDeviceBackoff ==
    [][\A d \in DOMAIN entities :
          /\ (outcome' # outcome /\ RateLimitHandledBy(d)') =>
                /\ HasKey(device_timers(d)', "statusUpdated")
                /\ \A e \in DOMAIN entities \ {d} :
                      device_timers(e)' = device_timers(e)
          /\ device_timers(d)' # device_timers(d) =>
                \E e \in DOMAIN entities : RateLimitHandledBy(e)'
      ]_vars

====
